---- MODULE Spec2Model ----
(***************************************************************************)
(* Model of the quiz flow of the student learning platform:                *)
(*   src/quiz/routes_quiz.py  start_quiz, show_question, submit_answer,    *)
(*                            show_result, extract_json_block              *)
(*   src/auth/routes_auth.py  login, logout                                *)
(*   src/app.py               login_manager.login_view                     *)
(*   src/models.py            QuizResult                                   *)
(*                                                                         *)
(* Text is a sequence of one-character strings.  A JSON value is a record  *)
(* [t, s, l]: t is its type, s its text (string, or the decimal repr of a  *)
(* number), l its elements (list).  The generation output is a sequence of *)
(* lexical tokens.                                                         *)
(*                                                                         *)
(* The session is the one browser session the requests come from.  The     *)
(* user table, the document table and the generation service are the       *)
(* environment: an account, the latest document and the generated text are *)
(* inputs of the request that reads them.  register, home and the docs and *)
(* rag blueprints touch none of the state below and are left out.          *)
(*                                                                         *)
(* Spec is the application.  SpecQuiz is the quiz blueprint in the session *)
(* of one logged in account, with a quiz_result table of QuizRows rows.    *)
(* SpecRepair, SpecCount and SpecFeedback each run one computation of the  *)
(* quiz views on one input: the repair of a parsed question, the number of *)
(* questions of the prompt, the feedback of a score.  Their input is arg,  *)
(* their result ret; the prompt is not part of the state otherwise.        *)
(***************************************************************************)
EXTENDS Integers, Sequences, FiniteSets, TLC

\* ------------------------------------------------------------------ bounds
\* longest question list the generation output carries
MaxQuestions == 2
\* longest options list of a generated question
MaxOptions == 5
\* longest num_questions form value
MaxFormLen == 3
\* most questions of a quiz whose feedback is computed
MaxTotal == 50
\* rows the quiz_result table can take before the model stops inserting
MaxResults == 2
\* the same for the quiz specification
QuizRows == 1

\* ------------------------------------------------------------------ text
Lowers == <<"a", "b", "c", "d", "e", "f", "g", "h", "i", "j", "k", "l", "m",
            "n", "o", "p", "q", "r", "s", "t", "u", "v", "w", "x", "y", "z">>
Uppers == <<"A", "B", "C", "D", "E", "F", "G", "H", "I", "J", "K", "L", "M",
            "N", "O", "P", "Q", "R", "S", "T", "U", "V", "W", "X", "Y", "Z">>

\* the upper case of each lower case letter
UpperOf ==
  [c \in {Lowers[i] : i \in 1..Len(Lowers)} |->
     Uppers[CHOOSE i \in 1..Len(Lowers) : Lowers[i] = c]]

\* str.upper() on one character
UpperChar(c) == IF c \in DOMAIN UpperOf THEN UpperOf[c] ELSE c

\* str.upper()
Upper(s) == [i \in 1..Len(s) |-> UpperChar(s[i])]

IsSpace(c) == c \in {" ", "\t", "\n"}

RECURSIVE LStrip(_)
LStrip(s) ==
  IF s # <<>> /\ IsSpace(Head(s)) THEN LStrip(Tail(s)) ELSE s

RECURSIVE RStrip(_)
RStrip(s) ==
  IF s # <<>> /\ IsSpace(s[Len(s)]) THEN RStrip(SubSeq(s, 1, Len(s) - 1)) ELSE s

\* str.strip()
Strip(s) == RStrip(LStrip(s))

\* str.startswith(p)
StartsWith(s, p) == Len(s) >= Len(p) /\ SubSeq(s, 1, Len(p)) = p

\* seq[:n]
Take(s, n) == SubSeq(s, 1, IF Len(s) < n THEN Len(s) ELSE n)

\* ------------------------------------------------------------------ JSON values
Absent == [t |-> "absent", s |-> <<>>, l |-> <<>>]
Null == [t |-> "null", s |-> <<>>, l |-> <<>>]
Str(s) == [t |-> "str", s |-> s, l |-> <<>>]
Num(s) == [t |-> "num", s |-> s, l |-> <<>>]
List(l) == [t |-> "list", s |-> <<>>, l |-> l]

\* Python truthiness of a parsed JSON value (None for an absent key)
Truthy(v) ==
  CASE v.t = "str" -> v.s # <<>>
    [] v.t = "num" -> v.s # <<"0">>
    [] v.t = "list" -> v.l # <<>>
    [] OTHER -> FALSE

\* str(o)
PyStr(v) ==
  CASE v.t = "str" -> v.s
    [] v.t = "num" -> v.s
    [] OTHER -> <<"N", "o", "n", "e">>

\* ------------------------------------------------------------------ normalisation
\* labels = ["A)", "B)", "C)", "D)"]
labels == << <<"A", ")">>, <<"B", ")">>, <<"C", ")">>, <<"D", ")">> >>

Letters == { <<"A">>, <<"B">>, <<"C">>, <<"D">> }

NoExplanation ==
  <<"N", "o", " ", "e", "x", "p", "l", "a", "n", "a", "t", "i", "o", "n", " ",
    "p", "r", "o", "v", "i", "d", "e", "d", ".">>

\* a parsed array element: a JSON object with the keys the handler reads, or
\* any other JSON value (isObj = FALSE)
Obj(o, c, e) == [isObj |-> TRUE, options |-> o, correct |-> c, explanation |-> e]
NonObj == [isObj |-> FALSE, options |-> Absent, correct |-> Absent, explanation |-> Absent]

\* opts[:4] is defined for a list and for a string, where it yields characters
Sliceable(v) == v.t \in {"absent", "list", "str"}

\* opts = q.get("options", []); opts[:4]
OptsSlice(v) ==
  CASE v.t = "list" -> Take(v.l, 4)
    [] v.t = "str" -> [i \in 1..Len(Take(v.s, 4)) |-> Str(<<v.s[i]>>)]
    [] OTHER -> <<>>

\* faulty variant: the label is looked for without the upper case
LabelOptionCaseSensitive(i, o) ==
  IF ~StartsWith(Strip(o), labels[i])
  THEN labels[i] \o <<" ">> \o o
  ELSE o
\* one option after the trim and the label fix at position i
LabelOption(i, o) ==
  IF ~StartsWith(Upper(Strip(o)), labels[i])
  THEN labels[i] \o <<" ">> \o o
  ELSE o

\* q["options"] after the two passes
NormalizeOptions(v) ==
  LET sl == OptsSlice(v)
      trimmed == [i \in 1..Len(sl) |-> Strip(PyStr(sl[i]))]
  IN  List([i \in 1..Len(trimmed) |-> Str(LabelOption(i, trimmed[i]))])

\* (q.get("correct") or "") has no strip() when it is a truthy non-string
CorrectRaises(v) == Truthy(v) /\ v.t # "str"

\* corr = (q.get("correct") or "").strip().upper()
Corr(v) == Upper(Strip(IF Truthy(v) THEN v.s ELSE <<>>))

\* q["correct"] is rewritten only when corr is not a valid letter
NormalizeCorrect(v) == IF Corr(v) \notin Letters THEN Str(<<"A">>) ELSE v

NormalizeExplanation(v) == IF ~Truthy(v) THEN Str(NoExplanation) ELSE v

\* the body of "for q in data" raises on this element
ItemRaises(q) == ~q.isObj \/ ~Sliceable(q.options) \/ CorrectRaises(q.correct)

NormalizeItem(q) ==
  Obj(NormalizeOptions(q.options), NormalizeCorrect(q.correct),
      NormalizeExplanation(q.explanation))

\* ------------------------------------------------------------------ generation output
\* The raw text is a sequence of lexical tokens [k, v]:
\*   "fence" ```      "tag" the word json      "[" "]" ","      "prose" other text
\*   "val" one JSON value that is not an array, v the element it parses to
Tok(k) == [k |-> k, v |-> NonObj]
Val(q) == [k |-> "val", v |-> q]
Fence == Tok("fence")
Tag == Tok("tag")
LB == Tok("[")
RB == Tok("]")
Comma == Tok(",")
Prose == Tok("prose")
\* what is left of an object whose text the slice cuts through
Frag == Tok("frag")

\* the text of a JSON object holds brackets when its options are written as an array
HasBrackets(tok) == tok.k = "val" /\ tok.v.isObj /\ tok.v.options.t = "list"

Min(S) == CHOOSE x \in S : \A y \in S : x <= y
Max(S) == CHOOSE x \in S : \A y \in S : x >= y

RECURSIVE Join(_)
\* the elements of an array, comma separated
Join(toks) ==
  IF Len(toks) <= 1 THEN toks ELSE <<Head(toks), Comma>> \o Join(Tail(toks))

\* the text of an array of values
ArrayText(vals) == <<LB>> \o Join([i \in 1..Len(vals) |-> Val(vals[i])]) \o <<RB>>

\* re.search(r"```(?:json)?(.*?)```", text, re.S | re.I): group(1) of the first match
IsFence(tok) == tok.k = "fence"

Fences(text) == {i \in 1..Len(text) : IsFence(text[i])}

Fenced(text) == Cardinality(Fences(text)) >= 2

FencedGroup(text) ==
  LET f1 == Min(Fences(text))
      f2 == Min(Fences(text) \ {f1})
      inner == SubSeq(text, f1 + 1, f2 - 1)
  IN  IF inner # <<>> /\ Head(inner).k = "tag" THEN Tail(inner) ELSE inner

IsOpen(tok) == tok.k = "[" \/ HasBrackets(tok)
IsClose(tok) == tok.k = "]" \/ HasBrackets(tok)

\* text[start:end+1] where start = text.find("[") and end = text.rfind("]"); a cut
\* inside an object leaves the options array when both ends fall in that object
\* and an unparseable fragment otherwise
Slice(text, start, end) ==
  IF start = end
  THEN ArrayText([i \in 1..Len(text[start].v.options.l) |-> NonObj])
  ELSE (IF text[start].k = "[" THEN <<LB>> ELSE <<Frag>>)
         \o SubSeq(text, start + 1, end - 1)
         \o (IF text[end].k = "]" THEN <<RB>> ELSE <<Frag>>)

extract_json_block(raw) ==
  LET text == IF Fenced(raw) THEN FencedGroup(raw) ELSE raw
      opens == {i \in 1..Len(text) : IsOpen(text[i])}
      closes == {i \in 1..Len(text) : IsClose(text[i])}
  IN  IF opens # {} /\ closes # {}
           /\ Max(closes) >= Min(opens)
      THEN Slice(text, Min(opens), Max(closes))
      ELSE text

\* ------------------------------------------------------------------ json.loads
ParseError == [ok |-> FALSE, isList |-> FALSE, items |-> <<>>]
Parsed(isList, items) == [ok |-> TRUE, isList |-> isList, items |-> items]

RECURSIVE Depth(_, _)
\* bracket depth after the first n tokens
Depth(toks, n) ==
  IF n = 0 THEN 0
  ELSE Depth(toks, n - 1)
         + (IF toks[n].k = "[" THEN 1 ELSE IF toks[n].k = "]" THEN -1 ELSE 0)

\* the bracket that closes the one at position 1, or 0
Closing(toks) ==
  LET cs == {n \in 2..Len(toks) : toks[n].k = "]" /\ Depth(toks, n) = 0}
  IN  IF cs = {} THEN 0 ELSE Min(cs)

RECURSIVE Loads(_)
RECURSIVE ParseElems(_)

\* value ("," value)* : the elements, an array nested in the array being an
\* element that is not an object
ParseElems(toks) ==
  IF toks = <<>> THEN ParseError
  ELSE LET n == IF Head(toks).k = "val" THEN 1
                ELSE IF Head(toks).k = "[" THEN Closing(toks)
                ELSE 0
           first == IF n = 1 THEN Parsed(FALSE, <<Head(toks).v>>)
                    ELSE IF n = 0 THEN ParseError
                    ELSE LET a == Loads(SubSeq(toks, 1, n))
                         IN  IF a.ok THEN Parsed(FALSE, <<NonObj>>) ELSE ParseError
           rest == SubSeq(toks, n + 1, Len(toks))
       IN  IF ~first.ok THEN ParseError
           ELSE IF rest = <<>> THEN Parsed(TRUE, first.items)
           ELSE IF Head(rest).k # "," THEN ParseError
           ELSE LET more == ParseElems(Tail(rest))
                IN  IF more.ok THEN Parsed(TRUE, first.items \o more.items)
                    ELSE ParseError

\* json.loads(json_str): one value and nothing else
Loads(toks) ==
  IF Len(toks) = 1 /\ toks[1].k = "val" THEN Parsed(FALSE, <<>>)
  ELSE IF toks # <<>> /\ toks[1].k = "[" /\ Closing(toks) = Len(toks)
  THEN (IF Len(toks) = 2 THEN Parsed(TRUE, <<>>)
        ELSE ParseElems(SubSeq(toks, 2, Len(toks) - 1)))
  ELSE ParseError

\* ------------------------------------------------------------------ inputs
X == Str(<<"x">>)

\* elements the generation output may carry
\* five unlabelled options; correct needs the trim and the upper case
Q1 == Obj(List(<<X, X, X, X, X>>), Str(<<" ", "b">>), X)
\* four options, two of them labelled, one to be trimmed
Q2 == Obj(List(<<Str(<<"A", ")", " ", "x">>), Str(<<" ", "B", ")", " ", "x", " ">>), X, X>>),
          Str(<<" ", "b">>), X)
\* two options, one of them a number; correct is no letter; no explanation
Q3 == Obj(List(<<X, Num(<<"7">>)>>), Str(<<"e">>), Absent)
\* two options, one labelled; no correct; a null explanation
Q4 == Obj(List(<<X, Str(<<"B", ")", " ", "7">>)>>), Absent, Null)
\* options of a type that cannot be sliced
B1 == Obj(Null, Str(<<"A">>), X)
\* no options; correct is a number
B2 == Obj(Absent, Num(<<"2">>), X)

Items == {Q1, Q2, Q3, Q4, B1, B2, NonObj}

RECURSIVE SeqsUpTo(_, _)
\* the sequences over S of length 0..n
SeqsUpTo(S, n) ==
  IF n = 0 THEN {<<>>}
  ELSE LET shorter == SeqsUpTo(S, n - 1)
       IN  shorter \cup {Append(q, x) : q \in {r \in shorter : Len(r) = n - 1}, x \in S}

\* what the model answers between the wrappers: an array of 0..MaxQuestions
\* elements, nothing, prose, a single object, a truncated array, an array with a
\* trailing comma
Bodies ==
  {ArrayText(qs) : qs \in SeqsUpTo(Items, MaxQuestions)}
    \cup {<<>>, <<Prose>>, <<Val(Q1)>>, <<Val(B2)>>, <<LB, Val(Q1)>>, <<LB, Val(Q1), Comma, RB>>}

\* resp.text: the body bare, in prose, in a fence, in a fence in prose, in a
\* fence that is never closed
RawOutputs ==
  UNION {{b, <<Prose>> \o b \o <<Prose>>, <<Fence, Tag>> \o b \o <<Fence>>,
          <<Prose, Fence>> \o b \o <<Fence, Prose>>, <<Fence, Tag>> \o b} : b \in Bodies}

\* form values of "answer": absent, and letters with and without case and blanks
Answers == {<<>>, <<"b">>, <<" ", "A", " ">>}

\* accounts of the user table
Users == {1, 2}
\* the account of the quiz specification
QuizUsers == {CHOOSE u \in Users : \A v \in Users : u <= v}
\* current_user of a request without a logged in user
Anonymous == 0

\* get_latest_doc(current_user.id): no row, a row without text, a row with text
LatestDocs == {"none", "blank", "text"}

\* ------------------------------------------------------------------ start_quiz, parse and repair
\* the outcome of lines 89-118 on one raw output: "failed" (the except branch),
\* "raised" (an exception leaves the loop), "ok" with the repaired data
StartOutcome(raw) ==
  LET p == Loads(extract_json_block(raw))
  IN  IF ~p.ok \/ ~p.isList \/ p.items = <<>>
      THEN [kind |-> "failed", data |-> <<>>]
      ELSE IF \E i \in 1..Len(p.items) : ItemRaises(p.items[i])
      THEN [kind |-> "raised", data |-> <<>>]
      ELSE [kind |-> "ok", data |-> [i \in 1..Len(p.items) |-> NormalizeItem(p.items[i])]]

StartOutcomes == {StartOutcome(raw) : raw \in RawOutputs}

\* ------------------------------------------------------------------ state
VARIABLES
  user,              \* session["_user_id"] of flask_login, Anonymous when not set
  quiz_data,         \* session["quiz_data"], <<>> when not set
  quiz_index,        \* session["quiz_index"], 0 when not set
  quiz_score,        \* session["quiz_score"], 0 when not set
  last_explanation,  \* session["last_explanation"], Absent when not set
  results,           \* the rows of the quiz_result table, in order of insertion
  resp,              \* the response to the last request
  owner,             \* history: the user whose start stored the quiz data
  saved,             \* history: rows inserted for the quiz data once the quiz was over
  answers,           \* history: the answers graded since the quiz data was stored
  arg,               \* the input of the helper computation a helper specification runs
  ret                \* its result

vars == <<user, quiz_data, quiz_index, quiz_score, last_explanation, results, resp,
          owner, saved, answers, arg, ret>>

session == <<quiz_data, quiz_index, quiz_score, last_explanation>>
history == <<owner, saved, answers>>
call == <<arg, ret>>

\* no helper computation is under way
Idle == [fn |-> "none"]

\* ------------------------------------------------------------------ responses
\* op: the view, kind/to: redirect to an endpoint, render of a template, or the
\* error page; flash: the category of the flashed message; body: what the
\* template is given
Redirect(op, to, flash) ==
  [op |-> op, kind |-> "redirect", to |-> to, flash |-> flash, body |-> "none"]
Render(op, template, body) ==
  [op |-> op, kind |-> "render", to |-> template, flash |-> "none", body |-> body]
\* an exception that leaves the view: the generic error page
ServerError(op) ==
  [op |-> op, kind |-> "error", to |-> "500", flash |-> "none", body |-> "none"]

Init ==
  /\ user = Anonymous
  /\ quiz_data = <<>>
  /\ quiz_index = 0
  /\ quiz_score = 0
  /\ last_explanation = Absent
  /\ results = <<>>
  /\ resp = Render("init", "none", "none")
  /\ owner = Anonymous
  /\ saved = 0
  /\ answers = <<>>
  /\ arg = Idle
  /\ ret = Idle

\* ------------------------------------------------------------------ auth
\* POST /login with the credentials of account u: login_user(user)
login(u) ==
  /\ user' = u
  /\ resp' = Redirect("login", "home", "none")
  /\ UNCHANGED <<session, results, history, call>>

\* POST /login with an unknown email or a wrong password
login_invalid ==
  /\ resp' = Redirect("login", "auth_bp.login", "message")
  /\ UNCHANGED <<user, session, results, history, call>>

\* GET /logout: logout_user() removes the user id and nothing else of the session
logout ==
  /\ user # Anonymous
  /\ user' = Anonymous
  /\ resp' = Redirect("logout", "auth_bp.login", "none")
  /\ UNCHANGED <<session, results, history, call>>

ProtectedViews == {"logout", "start_quiz", "show_question", "submit_answer", "show_result"}

\* @login_required without a logged in user: redirect to login_view
login_required(op) ==
  /\ user = Anonymous
  /\ resp' = Redirect(op, "auth_bp.login", "message")
  /\ UNCHANGED <<user, session, results, history, call>>

\* ------------------------------------------------------------------ quiz
\* latest is missing or has no text: lines 42-44
NoDocument(latest) == latest # "text"

\* GET /quiz/start
start_quiz_get ==
  /\ user # Anonymous
  /\ \E latest \in LatestDocs :
       resp' = IF NoDocument(latest)
               THEN Redirect("start_quiz", "docs_bp.upload", "warning")
               ELSE Render("start_quiz", "quiz_start.html", "none")
  /\ UNCHANGED <<user, session, results, history, call>>

\* faulty variant: the score of the quiz before is kept
InitSessionKeepingScore(data) ==
  /\ quiz_data' = data
  /\ quiz_index' = 0
  /\ quiz_score' = quiz_score
\* session state after lines 121-123
InitSession(data) ==
  /\ quiz_data' = data
  /\ quiz_index' = 0
  /\ quiz_score' = 0

\* faulty variant: the quiz in the session is dropped before the new one is made
start_left_clearing(r) ==
  /\ resp' = r
  /\ quiz_data' = <<>>
  /\ quiz_index' = 0
  /\ quiz_score' = 0
  /\ owner' = Anonymous
  /\ saved' = 0
  /\ answers' = <<>>
  /\ UNCHANGED last_explanation
\* the view is left with response r before line 121: lines 44, 98 and an
\* exception of lines 101-118
start_left(r) ==
  /\ resp' = r
  /\ UNCHANGED <<session, history>>

\* POST /quiz/start
start_quiz_post ==
  /\ user # Anonymous
  /\ \E latest \in LatestDocs :
       IF NoDocument(latest)
       THEN start_left(Redirect("start_quiz_post", "docs_bp.upload", "warning"))
       ELSE \E out \in StartOutcomes :
              IF out.kind = "failed"
              THEN start_left(Redirect("start_quiz_post", "quiz_bp.start_quiz", "danger"))
              ELSE IF out.kind = "raised"
              THEN start_left(ServerError("start_quiz_post"))
              ELSE /\ InitSession(out.data)
                   /\ resp' = Redirect("start_quiz_post", "quiz_bp.show_question", "none")
                   /\ owner' = user
                   /\ saved' = 0
                   /\ answers' = <<>>
                   /\ UNCHANGED last_explanation
  /\ UNCHANGED <<user, results, call>>

\* idx >= len(data): lines 143, 161 and 177
QuizOver(idx, data) == idx >= Len(data)

\* GET /quiz/q
show_question ==
  /\ user # Anonymous
  /\ resp' = IF quiz_data = <<>>
             THEN Redirect("show_question", "quiz_bp.start_quiz", "warning")
             ELSE IF QuizOver(quiz_index, quiz_data)
             THEN Redirect("show_question", "quiz_bp.show_result", "none")
             ELSE Render("show_question", "quiz_question.html", "none")
  /\ UNCHANGED <<user, session, results, history, call>>

\* selected = (request.form.get("answer") or "").strip().upper()
Selected(answer) == Upper(Strip(answer))

\* faulty variant: the answer is compared without the upper case
GradedCaseSensitive(q, answer) == Strip(answer) = Corr(q.correct)
\* selected == correct, lines 164-167
Graded(q, answer) == Selected(answer) = Corr(q.correct)

\* faulty variant: a wrong answer costs a point
NextScorePenalty(score, hit) == IF hit THEN score + 1 ELSE score - 1
\* lines 167-168
NextScore(score, hit) == IF hit THEN score + 1 ELSE score

\* faulty variant: the cursor skips a question
NextIndexSkip(idx) == idx + 2
\* line 173
NextIndex(idx) == idx + 1

\* the endpoint lines 177-179 redirect to
AfterAnswer(idx, data) ==
  IF QuizOver(idx, data) THEN "quiz_bp.show_result" ELSE "quiz_bp.show_question"

\* faulty variant: the answer is counted although the quiz is over
answer_after_end_graded ==
  /\ resp' = Redirect("submit_answer", "quiz_bp.show_result", "none")
  /\ quiz_score' = quiz_score + 1
  /\ last_explanation' = Str(<<>>)
  /\ UNCHANGED <<quiz_data, quiz_index, history>>
\* lines 161-162: the quiz is over, the answer is not looked at
answer_after_end ==
  /\ resp' = Redirect("submit_answer", "quiz_bp.show_result", "none")
  /\ UNCHANGED <<session, history>>

\* lines 164-179: the answer to question idx is graded
answer_graded(answer) ==
  LET q == quiz_data[quiz_index + 1]
      to == AfterAnswer(NextIndex(quiz_index), quiz_data)
  IN  IF CorrectRaises(q.correct)
      THEN /\ resp' = ServerError("submit_answer")
           /\ UNCHANGED <<session, history>>
      ELSE /\ quiz_score' = NextScore(quiz_score, Graded(q, answer))
           /\ last_explanation' = q.explanation
           /\ quiz_index' = NextIndex(quiz_index)
           /\ resp' = Redirect("submit_answer", to, "none")
           /\ answers' = Append(answers, [answer |-> answer, to |-> to])
           /\ UNCHANGED <<quiz_data, owner, saved>>

\* POST /quiz/answer with the form value answer
submit_answer(answer) ==
  /\ user # Anonymous
  /\ IF QuizOver(quiz_index, quiz_data)
     THEN answer_after_end
     ELSE answer_graded(answer)
  /\ UNCHANGED <<user, results, call>>

\* ---- float: an IEEE 754 double that is zero or positive.  The 53 bits of its
\* significand are a leading 1 and the four digits q of 13 bits each; e is the
\* exponent of the last bit.  The value is
\*   (2^52 + q[1] * 2^39 + q[2] * 2^26 + q[3] * 2^13 + q[4]) * 2^e
Base == 8192

Float(q, e) == [zero |-> FALSE, q |-> q, e |-> e]
FloatZero == [zero |-> TRUE, q |-> <<0, 0, 0, 0>>, e |-> 0]
\* 1.0
FloatOne == Float(<<0, 0, 0, 0>>, -52)

RECURSIVE Pow2(_)
Pow2(k) == IF k = 0 THEN 1 ELSE 2 * Pow2(k - 1)

RECURSIVE BitLength(_)
\* the number of binary digits of n
BitLength(n) == IF n = 0 THEN 0 ELSE 1 + BitLength(n \div 2)

RECURSIVE Increment(_)
\* the digits q plus one in the last place
Increment(q) ==
  IF q = <<>> THEN <<>>
  ELSE IF q[Len(q)] + 1 < Base THEN SubSeq(q, 1, Len(q) - 1) \o <<q[Len(q)] + 1>>
  ELSE Increment(SubSeq(q, 1, Len(q) - 1)) \o <<0>>

\* round to nearest, ties to even: q and e are the significand cut to 53 bits,
\* more: what was cut off is above half a unit of the last bit, half: it is
\* exactly half
Round(q, e, more, half) ==
  IF ~(more \/ (half /\ q[4] % 2 = 1)) THEN Float(q, e)
  ELSE IF \A i \in 1..4 : q[i] = Base - 1 THEN Float(<<0, 0, 0, 0>>, e + 1)
  ELSE Float(Increment(q), e)

RECURSIVE Shift(_, _)
\* the least k with b <= a * 2^k
Shift(a, b) == IF a >= b THEN 0 ELSE 1 + Shift(2 * a, b)

RECURSIVE Quotient(_, _, _)
\* long division in base Base: the four digits of r / b after q, r < b, and the
\* remainder
Quotient(r, b, q) ==
  IF Len(q) = 4 THEN [q |-> q, r |-> r]
  ELSE Quotient((r * Base) % b, b, Append(q, (r * Base) \div b))

\* a / b of two ints, 0 <= a <= b and 0 < b: the quotient, rounded
TrueDiv(a, b) ==
  IF a = 0 THEN FloatZero
  ELSE LET k == Shift(a, b)
           d == Quotient(a * Pow2(k) - b, b, <<>>)
       IN  Round(d.q, 0 - k - 52, 2 * d.r > b, 2 * d.r = b)

\* x * float(n) for an int 0 < n < Base: the exact product, rounded
Times(x, n) ==
  IF x.zero THEN FloatZero
  ELSE LET p4 == x.q[4] * n
           p3 == x.q[3] * n + p4 \div Base
           p2 == x.q[2] * n + p3 \div Base
           p1 == x.q[1] * n + p2 \div Base
           top == n + p1 \div Base
           d == <<top, p1 % Base, p2 % Base, p3 % Base, p4 % Base>>
           k == BitLength(top) - 1
           cut == Pow2(k)
           q == [i \in 1..4 |-> (d[i] % cut) * (Base \div cut) + d[i + 1] \div cut]
           rest == d[5] % cut
       IN  Round(q, x.e + k, 2 * rest > cut, 2 * rest = cut)

\* float(n) of an int 0 <= n < Base
FromInt(n) == IF n = 0 THEN FloatZero ELSE Times(FloatOne, n)

\* x < y
Less(x, y) ==
  IF y.zero THEN FALSE
  ELSE IF x.zero THEN TRUE
  ELSE \/ x.e < y.e
       \/ /\ x.e = y.e
          /\ \E i \in 1..4 :
               x.q[i] < y.q[i] /\ \A j \in 1..(i - 1) : x.q[j] = y.q[j]

\* percent = (score / total * 100) if total else 0
Percent(score, total) ==
  IF total # 0 THEN Times(TrueDiv(score, total), 100) ELSE FromInt(0)

\* faulty variant: the thresholds belong to the lower band
FeedbackInclusive(score, total) ==
  IF ~Less(FromInt(40), Percent(score, total)) THEN "Needs Practice"
  ELSE IF ~Less(FromInt(70), Percent(score, total)) THEN "Good, keep improving"
  ELSE "Excellent!"
\* lines 197-203
Feedback(score, total) ==
  IF Less(Percent(score, total), FromInt(40)) THEN "Needs Practice"
  ELSE IF Less(Percent(score, total), FromInt(70)) THEN "Good, keep improving"
  ELSE "Excellent!"

\* QuizResult(user_id=current_user.id, score=score, total=total)
QuizResult(u, score, total) == [user_id |-> u, score |-> score, total |-> total]

\* faulty variant: a row is saved without a quiz
SaveResultAlways(total) == total >= 0
\* lines 192-195
SaveResult(total) == total > 0

\* faulty variant: lines 205-208 are not comments, the quiz is removed from the
\* session
show_result_clearing(cap) ==
  /\ user # Anonymous
  /\ LET total == Len(quiz_data)
         score == quiz_score
     IN  /\ IF SaveResult(total)
            THEN /\ Len(results) < cap
                 /\ results' = Append(results, QuizResult(user, score, total))
            ELSE UNCHANGED results
         /\ resp' = Render("show_result", "quiz_result.html", Feedback(score, total))
  /\ quiz_data' = <<>>
  /\ quiz_index' = 0
  /\ quiz_score' = 0
  /\ owner' = Anonymous
  /\ saved' = 0
  /\ answers' = <<>>
  /\ UNCHANGED <<user, last_explanation, call>>
\* GET /quiz/result, the table taking no more than cap rows
show_result(cap) ==
  /\ user # Anonymous
  /\ LET total == Len(quiz_data)
         score == quiz_score
     IN  /\ IF SaveResult(total)
            THEN /\ Len(results) < cap
                 /\ results' = Append(results, QuizResult(user, score, total))
                 /\ saved' = (IF QuizOver(quiz_index, quiz_data) THEN saved + 1 ELSE saved)
            ELSE UNCHANGED <<results, saved>>
         /\ resp' = Render("show_result", "quiz_result.html", Feedback(score, total))
  /\ UNCHANGED <<user, session, owner, answers, call>>

\* ------------------------------------------------------------------ specification
\* the application: both blueprints, every account
Next ==
  \/ \E u \in Users : login(u)
  \/ login_invalid
  \/ logout
  \/ \E op \in ProtectedViews : login_required(op)
  \/ start_quiz_get
  \/ start_quiz_post
  \/ show_question
  \/ \E answer \in Answers : submit_answer(answer)
  \/ show_result(MaxResults)

Spec == Init /\ [][Next]_vars

\* the quiz blueprint in the session of one logged in account
InitQuiz ==
  /\ user \in QuizUsers
  /\ quiz_data = <<>>
  /\ quiz_index = 0
  /\ quiz_score = 0
  /\ last_explanation = Absent
  /\ results = <<>>
  /\ resp = Redirect("login", "home", "none")
  /\ owner = Anonymous
  /\ saved = 0
  /\ answers = <<>>
  /\ arg = Idle
  /\ ret = Idle

NextQuiz ==
  \/ start_quiz_get
  \/ start_quiz_post
  \/ show_question
  \/ \E answer \in Answers : submit_answer(answer)
  \/ show_result(QuizRows)

SpecQuiz == InitQuiz /\ [][NextQuiz]_vars

\* ------------------------------------------------------------------ helper specifications
\* the state of a helper specification before the computation: no request has
\* been made, the input is one of inputs
HelperInit(inputs) ==
  /\ user = Anonymous
  /\ quiz_data = <<>>
  /\ quiz_index = 0
  /\ quiz_score = 0
  /\ last_explanation = Absent
  /\ results = <<>>
  /\ resp = Render("init", "none", "none")
  /\ owner = Anonymous
  /\ saved = 0
  /\ answers = <<>>
  /\ arg \in inputs
  /\ ret = Idle

\* the options of a generated question: unlabelled, labelled in lower case with
\* blanks around, labelled without a blank, a number
OptionValues ==
  {Str(<<"f", "o", "o">>), Str(<<" ", "b", ")", " ", "x", " ">>), Str(<<"A", ")", "x">>),
   Num(<<"7">>)}

Unlabelled ==
  List(<<Str(<<"f", "o", "o">>), Str(<<"b", "a", "r">>), Str(<<"b", "a", "z">>),
         Str(<<"q", "u", "x">>)>>)

\* "options": a list of 0..MaxOptions options, a list with an empty string and a
\* null, no key, null, a string
OptionInputs ==
  {List(l) : l \in SeqsUpTo(OptionValues, MaxOptions)}
    \cup {Unlabelled, List(<<Str(<<>>), Null>>), Absent, Null,
          Str(<<"a", ")", "b", "c", "d", "e">>)}

\* "correct": no key, null, empty, no letter, a letter in lower case with a
\* blank, a letter, a number
CorrectInputs ==
  {Absent, Null, Str(<<>>), Str(<<"e">>), Str(<<" ", "b">>), Str(<<"C">>),
   Str(<<"d", " ">>), Num(<<"2">>)}

ExplanationInputs == {Absent, X}

\* the elements the parsed array can hold
RepairInputs ==
  {Obj(o, c, e) : o \in OptionInputs, c \in CorrectInputs, e \in ExplanationInputs}
    \cup {NonObj}

InitRepair == HelperInit({[fn |-> "repair", q |-> q] : q \in RepairInputs})

\* the body of "for q in data" on the element arg.q: it raises, or q is what the
\* session stores
repair ==
  /\ arg.fn = "repair"
  /\ ret = Idle
  /\ ret' = IF ItemRaises(arg.q)
            THEN [fn |-> "raised", q |-> NonObj]
            ELSE [fn |-> "stored", q |-> NormalizeItem(arg.q)]
  /\ UNCHANGED <<user, session, results, resp, history, arg>>

\* lines 101-118 on one parsed element
SpecRepair == InitRepair /\ [][repair]_vars

\* the characters of a num_questions form value
FormChars == {"0", "5", "7", "9", "-", "+", " ", "_", ".", "a"}

\* request.form: the field is missing, or it has a text of 0..MaxFormLen characters
FormInputs ==
  {[present |-> FALSE, s |-> <<>>]}
    \cup {[present |-> TRUE, s |-> t] : t \in SeqsUpTo(FormChars, MaxFormLen)}

\* request.form.get(name, default)
FormGet(field, default) == IF field.present THEN field.s ELSE default

Digits == <<"0", "1", "2", "3", "4", "5", "6", "7", "8", "9">>
IsDigit(c) == \E d \in 1..Len(Digits) : Digits[d] = c
DigitValue(c) == (CHOOSE d \in 1..Len(Digits) : Digits[d] = c) - 1

\* the digits of an integer literal: underscores only between two digits
IntLiteral(t) ==
  /\ t # <<>>
  /\ IsDigit(t[1])
  /\ IsDigit(t[Len(t)])
  /\ \A i \in 1..Len(t) :
       IsDigit(t[i]) \/ (t[i] = "_" /\ IsDigit(t[i - 1]) /\ IsDigit(t[i + 1]))

RECURSIVE LiteralValue(_, _)
LiteralValue(t, acc) ==
  IF t = <<>> THEN acc
  ELSE LiteralValue(Tail(t), IF Head(t) = "_" THEN acc ELSE 10 * acc + DigitValue(Head(t)))

\* int(s) of a string: blanks around, one sign, the digits; ok is FALSE where
\* int raises ValueError
int(s) ==
  LET t == Strip(s)
      signed == t # <<>> /\ t[1] \in {"+", "-"}
      body == IF signed THEN Tail(t) ELSE t
      n == LiteralValue(body, 0)
  IN  IF IntLiteral(body)
      THEN [ok |-> TRUE, n |-> IF t[1] = "-" THEN 0 - n ELSE n]
      ELSE [ok |-> FALSE, n |-> 0]

\* faulty variant: min and max are exchanged
clampExchanged(n, lo, hi) == Min({lo, Max({n, hi})})
\* max(lo, min(n, hi))
clamp(n, lo, hi) == Max({lo, Min({n, hi})})

\* lines 48-52: num after the clamp
num_questions(field) ==
  LET parsed == int(FormGet(field, <<"5">>))
  IN  clamp(IF parsed.ok THEN parsed.n ELSE 5, 1, 50)

InitCount == HelperInit({[fn |-> "count", field |-> f] : f \in FormInputs})

\* the number of questions the prompt asks for
count ==
  /\ arg.fn = "count"
  /\ ret = Idle
  /\ ret' = [fn |-> "num", n |-> num_questions(arg.field)]
  /\ UNCHANGED <<user, session, results, resp, history, arg>>

\* lines 48-52 on one form value
SpecCount == InitCount /\ [][count]_vars

\* a score of a quiz of 0..MaxTotal questions
FeedbackInputs ==
  {[score |-> sc, total |-> t] : sc \in 0..MaxTotal, t \in 0..MaxTotal}

InitFeedback == HelperInit({[fn |-> "feedback", score |-> p.score, total |-> p.total] :
                              p \in {q \in FeedbackInputs : q.score <= q.total}})

\* the feedback the result view renders
feedback ==
  /\ arg.fn = "feedback"
  /\ ret = Idle
  /\ ret' = [fn |-> "text", text |-> Feedback(arg.score, arg.total)]
  /\ UNCHANGED <<user, session, results, resp, history, arg>>

\* lines 197-203 on one score
SpecFeedback == InitFeedback /\ [][feedback]_vars

\* ------------------------------------------------------------------ properties
HasQuiz == quiz_data # <<>>
Completed == HasQuiz /\ quiz_index = Len(quiz_data)
InProgress == HasQuiz /\ quiz_index < Len(quiz_data)

\* the last request ran the body of the view op (it was not sent to the login page)
Ran(op) == resp.op = op /\ resp.to # "auth_bp.login"
\* the step runs the body of the view op
Runs(op) == resp'.op = op /\ resp'.to # "auth_bp.login" /\ vars' # vars

\* C1: for a completed quiz exactly one QuizResult row is created: once the quiz
\* is over, the first GET /quiz/result inserts the row and no later GET
\* /quiz/result of the same quiz inserts another.
C1_OneRowPerCompletedQuiz == saved <= 1

\* C2: GET /quiz/result inserts a row only when the quiz in the session is
\* completed (index = len(questions)); while the quiz is in progress no row is
\* inserted.
C2_RowOnlyWhenCompleted == [][results' # results => Completed]_vars

\* C3: the quiz state one user's start stored is never shown to, advanced by or
\* saved under another user: whenever a quiz view has run on quiz data, the
\* logged in user is the one whose start stored it.
C3_QuizOwnedByOneUser ==
  (HasQuiz /\ (Ran("show_question") \/ Ran("submit_answer") \/ Ran("show_result")))
    => user = owner

\* the number K of graded answers that equal, after trim and upper case, the
\* correct letter of their question
Matches ==
  Cardinality({i \in 1..Len(answers) :
                 Upper(Strip(answers[i].answer)) = Upper(Strip(quiz_data[i].correct.s))})

\* C4: after a start with N >= 1 questions and n <= N submitted answers, K of
\* them matching the correct letter of their question, index = n and score = K;
\* submissions 1..N-1 redirect to the question view and submission N to the
\* result view.
C4_ScoreCountsMatches ==
  HasQuiz =>
    /\ Len(answers) <= Len(quiz_data)
    /\ quiz_index = Len(answers)
    /\ quiz_score = Matches
    /\ \A i \in 1..Len(answers) :
         answers[i].to = (IF i = Len(quiz_data) THEN "quiz_bp.show_result"
                          ELSE "quiz_bp.show_question")

\* a quiz of two or more questions answered to the end, some answers right and
\* some wrong
C4_Witness ==
  /\ Len(quiz_data) >= 2
  /\ Len(answers) = Len(quiz_data)
  /\ Ran("submit_answer")
  /\ quiz_score >= 1
  /\ quiz_score < Len(quiz_data)

\* C5: an answer submitted when the quiz is completed changes neither score nor
\* index nor last_explanation and is redirected to the result view.
C5_AnswerAfterEndIsNoOp ==
  [][(Completed /\ Runs("submit_answer")) =>
       /\ quiz_score' = quiz_score
       /\ quiz_index' = quiz_index
       /\ last_explanation' = last_explanation
       /\ resp'.kind = "redirect"
       /\ resp'.to = "quiz_bp.show_result"]_vars

\* an answer was submitted after the result of the completed quiz had been saved
C5_Witness == Completed /\ saved >= 1 /\ Ran("submit_answer")

\* C6: whatever the generation output, POST /quiz/start either initializes the
\* session and redirects to /quiz/q or flashes a failure and redirects to the
\* start form; no exception leaves the request.
C6_StartNeverRaises ==
  (Ran("start_quiz_post") /\ resp.to # "docs_bp.upload") =>
    /\ resp.kind = "redirect"
    /\ \/ resp.to = "quiz_bp.show_question" /\ HasQuiz /\ quiz_index = 0 /\ quiz_score = 0
       \/ resp.to = "quiz_bp.start_quiz" /\ resp.flash # "none"

\* C7: with no quiz data in the session, GET /quiz/q and POST /quiz/answer both
\* flash a warning and redirect to the start form.
C7_NoQuizWarns ==
  (~HasQuiz /\ (Ran("show_question") \/ Ran("submit_answer"))) =>
    /\ resp.kind = "redirect"
    /\ resp.to = "quiz_bp.start_quiz"
    /\ resp.flash = "warning"

\* a successful POST /quiz/start
StartsQuiz == Runs("start_quiz_post") /\ resp'.to = "quiz_bp.show_question"

\* C8: with a quiz in the session 0 <= index <= len(questions); index is 0 right
\* after a start; an answer submitted while index < len(questions) increases
\* index by exactly 1.
C8_IndexIsCursor ==
  /\ [](HasQuiz => (0 <= quiz_index /\ quiz_index <= Len(quiz_data)))
  /\ [][/\ StartsQuiz => quiz_index' = 0
        /\ (InProgress /\ Runs("submit_answer")) => quiz_index' = quiz_index + 1]_vars

\* the last answer of a quiz of two or more questions has been graded
C8_Witness == Len(quiz_data) >= 2 /\ Completed /\ Ran("submit_answer")

\* C9: with a quiz in the session 0 <= score <= len(questions), and no
\* operation other than a quiz start decreases score.
C9_ScoreBounded ==
  /\ [](HasQuiz => (0 <= quiz_score /\ quiz_score <= Len(quiz_data)))
  /\ [][~StartsQuiz => quiz_score' >= quiz_score]_vars

\* a quiz of two or more questions with every answer right
C9_Witness ==
  /\ Len(quiz_data) >= 2
  /\ Ran("submit_answer")
  /\ quiz_score = Len(quiz_data)

\* C10: every question record a successful start stores has exactly 4 options,
\* whatever the number of options of the parsed item.
C10_FourOptions ==
  \A i \in 1..Len(quiz_data) : Len(quiz_data[i].options.l) = 4

\* C11: the correct field of every question record a successful start stores is
\* exactly one of the letters A, B, C, D: a missing, empty or invalid value is
\* stored as "A", a valid letter in lower case or with blanks around it as that
\* upper case letter.
C11_CorrectIsLetter ==
  \A i \in 1..Len(quiz_data) :
    /\ quiz_data[i].correct.t = "str"
    /\ quiz_data[i].correct.s \in Letters

\* C12: the letter in the correct field of a stored question record is the
\* label of one of the options of that record: there is an option at the
\* position of that letter.
C12_CorrectHasOption ==
  ret.fn = "stored" =>
    \E i \in 1..Len(ret.q.options.l) :
      /\ labels[i] = Corr(ret.q.correct) \o <<")">>
      /\ StartsWith(Upper(ret.q.options.l[i].s), labels[i])

LabelLetters == <<"A", "B", "C", "D">>
LabelLettersLower == <<"a", "b", "c", "d">>

\* text t starts with the label of position i, in either case
HasLabel(i, t) ==
  /\ Len(t) >= 2
  /\ t[1] \in {LabelLetters[i], LabelLettersLower[i]}
  /\ t[2] = ")"

\* the text of option i of the parsed element, trimmed
TrimmedInput(i) == Strip(PyStr(arg.q.options.l[i]))

\* C13: for each of the first four positions of the options list of a parsed
\* item, the stored option is the trimmed input when the input starts with the
\* label of the position in either case, and the label, one blank and the
\* trimmed input otherwise; foo, bar, baz, qux are stored as "A) foo", "B) bar",
\* "C) baz", "D) qux".
C13_PerPositionFix ==
  (ret.fn = "stored" /\ arg.q.options.t = "list") =>
    /\ \A i \in 1..4 :
         i <= Len(arg.q.options.l) =>
           /\ i <= Len(ret.q.options.l)
           /\ ret.q.options.l[i] =
                Str(IF HasLabel(i, TrimmedInput(i)) THEN TrimmedInput(i)
                    ELSE <<LabelLetters[i], ")", " ">> \o TrimmedInput(i))
    /\ arg.q.options = Unlabelled =>
         ret.q.options =
           List(<<Str(<<"A", ")", " ", "f", "o", "o">>), Str(<<"B", ")", " ", "b", "a", "r">>),
                  Str(<<"C", ")", " ", "b", "a", "z">>), Str(<<"D", ")", " ", "q", "u", "x">>)>>)

\* a list of four or more options was stored, one option kept for its lower
\* case label and one given a label
C13_Witness ==
  /\ ret.fn = "stored"
  /\ arg.q.options.t = "list"
  /\ Len(arg.q.options.l) >= 4
  /\ \E i, j \in 1..4 :
       /\ TrimmedInput(i)[1] = LabelLettersLower[i]
       /\ ret.q.options.l[i].s = TrimmedInput(i)
       /\ ret.q.options.l[j].s # TrimmedInput(j)

\* the integer the submitted value parses to
Submitted == int(arg.field.s)

\* C14: for every submitted num_questions value the number of questions of the
\* prompt lies in 1..50: it is 5 when the field is missing or its value does not
\* parse as an integer, and the parsed integer brought into 1..50 otherwise.
C14_CountInRange ==
  ret.fn = "num" =>
    /\ ret.n \in 1..50
    /\ (~arg.field.present \/ ~Submitted.ok) => ret.n = 5
    /\ (arg.field.present /\ Submitted.ok) =>
         ret.n = (IF Submitted.n < 1 THEN 1
                  ELSE IF Submitted.n > 50 THEN 50
                  ELSE Submitted.n)

\* a value above 50 was submitted with blanks or a sign around it
C14_Witness ==
  /\ ret.fn = "num"
  /\ arg.field.present
  /\ Submitted.ok
  /\ Submitted.n > 50
  /\ ~IsDigit(arg.field.s[1])
  /\ ret.n = 50

\* C15: the feedback of the result view is "Needs Practice" when total = 0 or
\* 100 * score < 40 * total, "Good, keep improving" when 40 * total <= 100 * score
\* < 70 * total, and "Excellent!" when 100 * score >= 70 * total: the comparison
\* of percent = score / total * 100 (0 when total = 0) with 40 and 70 comes to
\* this comparison of integers for every 0 <= score <= total.
C15_FeedbackByPercent ==
  ret.fn = "text" =>
    ret.text = (IF arg.total = 0 \/ 100 * arg.score < 40 * arg.total
                THEN "Needs Practice"
                ELSE IF 100 * arg.score < 70 * arg.total
                THEN "Good, keep improving"
                ELSE "Excellent!")

\* a score of exactly 70 percent whose quotient is not a binary fraction
C15_Witness ==
  /\ ret.fn = "text"
  /\ arg.score = 7
  /\ arg.total = 10
  /\ ret.text = "Excellent!"

\* the lists of question records the repair of a parsed generation output gives
NormalizedLists == {out.data : out \in {o \in StartOutcomes : o.kind = "ok"}}

\* C16: a successful POST /quiz/start stores a non-empty list of normalized
\* question records and sets index and score to 0, whatever the session held
\* before, a quiz in progress or a completed quiz included.
C16_StartResets ==
  [][StartsQuiz =>
       /\ quiz_data' # <<>>
       /\ quiz_data' \in NormalizedLists
       /\ quiz_index' = 0
       /\ quiz_score' = 0]_vars

\* a quiz was started over a quiz that had been answered with a right answer
\* and whose result had been saved
C16_Witness ==
  /\ Ran("start_quiz_post")
  /\ resp.to = "quiz_bp.show_question"
  /\ answers = <<>>
  /\ last_explanation # Absent
  /\ \E i \in 1..Len(results) : results[i].score >= 1

\* C17: GET /quiz/q and GET /quiz/result leave questions, index and score of
\* the session unchanged, and POST /quiz/answer leaves the questions unchanged.
C17_ViewsKeepSession ==
  [][/\ (Runs("show_question") \/ Runs("show_result")) =>
          UNCHANGED <<quiz_data, quiz_index, quiz_score>>
     /\ Runs("submit_answer") => quiz_data' = quiz_data]_vars

\* the result of a quiz with answers was shown and the quiz is still in the
\* session
C17_Witness ==
  /\ Ran("show_result")
  /\ HasQuiz
  /\ quiz_index >= 1
  /\ quiz_score >= 1

\* C18: a POST /quiz/start that ends for want of a document with text, or
\* because the generation output does not parse to a non-empty list, leaves
\* questions, index and score of the session as they were.
C18_FailedStartKeepsSession ==
  [][(Runs("start_quiz_post") /\ resp'.to \in {"docs_bp.upload", "quiz_bp.start_quiz"}) =>
       UNCHANGED <<quiz_data, quiz_index, quiz_score>>]_vars

\* a start failed on its generation output while a quiz was in progress
C18_Witness ==
  /\ Ran("start_quiz_post")
  /\ resp.to = "quiz_bp.start_quiz"
  /\ InProgress
  /\ quiz_index >= 1
  /\ quiz_score >= 1

\* C19: every row of the quiz_result table has total >= 1 and 0 <= score <=
\* total, and the total of a row is the number of questions of the quiz in the
\* session when the row is inserted.
C19_RowsWellFormed ==
  /\ [](\A i \in 1..Len(results) :
          /\ results[i].total >= 1
          /\ 0 <= results[i].score
          /\ results[i].score <= results[i].total)
  /\ [][results' # results =>
          /\ Len(results') = Len(results) + 1
          /\ results'[Len(results')].total = Len(quiz_data)]_vars

\* a row of a quiz of two or more questions with a right and a wrong answer
C19_Witness ==
  \E i \in 1..Len(results) :
    /\ results[i].total >= 2
    /\ results[i].score >= 1
    /\ results[i].score < results[i].total

====
